---- MODULE Spec2Model ----
(***************************************************************************)
(* LearnLab: a model of the three server variants of the repository.       *)
(*   "server"   src/server.js          GET /api/learn, table + synthesized *)
(*                                     fallback, optional AI               *)
(*   "part_000" src/unnamed/part_000   GET /api/topic, Gemini AI with a    *)
(*                                     flat fallback record                *)
(*   "part_001" src/unnamed/part_001   GET and POST /api/topic, PostgreSQL *)
(* Strings are TLA+ strings; the JavaScript string methods the handlers    *)
(* use are defined below by what they compute.                             *)
(***************************************************************************)
EXTENDS Integers, Sequences, FiniteSets, TLC

VARIABLES
    variant,         \* which of the three programs is running
    aiAvailable,     \* server.js aiAvailable / part_000 !!model
    now,             \* Date.now()
    requestHistory,  \* the module-level array of admitted timestamps
    req,             \* the requests in flight, one record per connection
    response,        \* the response written in the last step, if any
    topics,          \* part_001: rows of table topics
    tasks,           \* part_001: rows of table tasks
    calls,           \* history variable: every checkRateLimit call, [t, ok]
    fbInput,         \* the input of the fallback generator under test
    fbFirst,         \* history variable: its first result
    fbLast           \* history variable: its latest result

vars == << variant, aiAvailable, now, requestHistory, req, response, topics, tasks,
           calls, fbInput, fbFirst, fbLast >>

(***************************************************************************)
(* Bounds of the model.  RATE_LIMIT, WINDOW_MS and MS_PER_SEC stand for    *)
(* the program's 30 (server.js:810) or 60 (part_000:155), 60000            *)
(* (server.js:811, part_000:156) and the literal 1000 (server.js:822,      *)
(* part_000:168): the code is the same for every value, and the model      *)
(* checks it with small ones so that the limit and the window are reached. *)
(***************************************************************************)
RATE_LIMIT == 2
WINDOW_MS == 3
MS_PER_SEC == 2
MaxTime == 5
MaxFbTime == 2
MaxHttpTime == 1
MaxCalls == 6
NumSlots == 2
MaxTopics == 4
MaxGenLen == 2

Variants == {"server", "part_000", "part_001"}

(***************************************************************************)
(* JavaScript strings                                                      *)
(***************************************************************************)
UpperLetters == "ABCDEFGHIJKLMNOPQRSTUVWXYZ"
LowerLetters == "abcdefghijklmnopqrstuvwxyz"
WhiteSpace == {" ", "\t", "\n", "\r"}

\* s.charAt(i), i counted from 0; "" when i is out of range
charAt(s, i) == IF i >= 0 /\ i < Len(s) THEN SubSeq(s, i + 1, i + 1) ELSE ""

\* s.slice(i) for 0 <= i
slice(s, i) == IF i >= Len(s) THEN "" ELSE SubSeq(s, i + 1, Len(s))

\* the lower-case letter of every upper-case letter, and the converse
LowerOf ==
    [c \in {SubSeq(UpperLetters, i, i) : i \in 1..26} |->
        LET i == CHOOSE j \in 1..26 : SubSeq(UpperLetters, j, j) = c
        IN  SubSeq(LowerLetters, i, i)]
UpperOf ==
    [c \in {SubSeq(LowerLetters, i, i) : i \in 1..26} |->
        LET i == CHOOSE j \in 1..26 : SubSeq(LowerLetters, j, j) = c
        IN  SubSeq(UpperLetters, i, i)]

lowerChar(c) == IF c \in DOMAIN LowerOf THEN LowerOf[c] ELSE c

upperChar(c) == IF c \in DOMAIN UpperOf THEN UpperOf[c] ELSE c

RECURSIVE toLowerCase(_)
toLowerCase(s) ==
    IF s = "" THEN "" ELSE lowerChar(charAt(s, 0)) \o toLowerCase(slice(s, 1))

RECURSIVE toUpperCase(_)
toUpperCase(s) ==
    IF s = "" THEN "" ELSE upperChar(charAt(s, 0)) \o toUpperCase(slice(s, 1))

RECURSIVE trimStart(_)
trimStart(s) ==
    IF s # "" /\ charAt(s, 0) \in WhiteSpace THEN trimStart(slice(s, 1)) ELSE s

RECURSIVE trimEnd(_)
trimEnd(s) ==
    IF s # "" /\ charAt(s, Len(s) - 1) \in WhiteSpace
    THEN trimEnd(SubSeq(s, 1, Len(s) - 1))
    ELSE s

\* s.trim()
trim(s) == trimEnd(trimStart(s))

\* s.includes(key)
includes(s, key) ==
    \E i \in 1..(Len(s) - Len(key) + 1) : SubSeq(s, i, i + Len(key) - 1) = key

\* a capitalisation that loses the first character
Capitalize_dropFirst(topic) == slice(topic, 1)

\* a capitalisation that appends the clock value
Capitalize_stamped(topic) ==
    toUpperCase(charAt(topic, 0)) \o slice(topic, 1) \o " " \o ToString(now)

\* topic.charAt(0).toUpperCase() + topic.slice(1)
Capitalize(topic) == toUpperCase(charAt(topic, 0)) \o slice(topic, 1)

(***************************************************************************)
(* server.js: content generators                                           *)
(***************************************************************************)
Difficulties == {"beginner", "intermediate", "advanced"}

\* The template literal of generateDefaultExplanation, with every place
\* where the topic is inserted.  The fixed prose between two insertions is
\* cut down to its heading or its first words ([...] marks a cut): no
\* behaviour of the program depends on it.
generateDefaultExplanation(topic) ==
    "# Comprehensive Guide to " \o Capitalize(topic)
    \o "\n\n## What is " \o topic \o "?\n"
    \o topic \o " is a concept/technology/skill [...]\n\n## Core Concepts\n"
    \o "- **Fundamental Principle**: The basic idea behind " \o topic
    \o "\n- **Key Components**: Main elements that make up " \o topic
    \o "\n- **Working Mechanism**: How " \o topic \o " functions in practice"
    \o "\n- **Applications**: Where and how " \o topic \o " is used"
    \o "\n- **Benefits**: Advantages of understanding/using " \o topic
    \o "\n\n## Learning Objectives\nBy studying " \o topic \o ", you will: [...]"
    \o "\n\n## Common Use Cases\n1. **Industry Applications**: How businesses use " \o topic
    \o "\n2. **Educational Value**: Learning benefits of " \o topic
    \o "\n3. **Research Potential**: How " \o topic \o " advances knowledge"
    \o "\n4. **Personal Projects**: Creative applications of " \o topic
    \o "\n\n## Tools and Resources [...]\n\nRemember: The key to mastering " \o topic
    \o " is consistent practice and application. [...]"

\* a task list with the intermediate task in front of the beginner task
generateDefaultTasks_reordered(topic) ==
    << [ title |-> "Create a " \o topic \o " Concept Map",
         description |-> "Design a visual diagram showing the main components of " \o topic
             \o ", their relationships, and how they work together.",
         difficulty |-> "intermediate",
         hint |-> "Use tools like draw.io, Lucidchart, or even paper. Start with the central concept and branch out to related ideas." ],
       [ title |-> "Research and Define " \o topic,
         description |-> "Find 3-5 reliable sources about " \o topic
             \o " and create a summary in your own words. Include: definition, key concepts, and real-world applications.",
         difficulty |-> "beginner",
         hint |-> "Start with Wikipedia, educational websites, and official documentation. Focus on understanding, not just copying." ],
       [ title |-> "Design a Practical " \o topic \o " Application",
         description |-> "Identify a real-world problem that could be solved using " \o topic
             \o ". Create a detailed plan including: problem statement, solution approach, required resources, and expected outcomes.",
         difficulty |-> "advanced",
         hint |-> "Think about problems in your community, workplace, or area of interest. Consider feasibility and impact." ] >>

generateDefaultTasks(topic) ==
    << [ title |-> "Research and Define " \o topic,
         description |-> "Find 3-5 reliable sources about " \o topic
             \o " and create a summary in your own words. Include: definition, key concepts, and real-world applications.",
         difficulty |-> "beginner",
         hint |-> "Start with Wikipedia, educational websites, and official documentation. Focus on understanding, not just copying." ],
       [ title |-> "Create a " \o topic \o " Concept Map",
         description |-> "Design a visual diagram showing the main components of " \o topic
             \o ", their relationships, and how they work together.",
         difficulty |-> "intermediate",
         hint |-> "Use tools like draw.io, Lucidchart, or even paper. Start with the central concept and branch out to related ideas." ],
       [ title |-> "Design a Practical " \o topic \o " Application",
         description |-> "Identify a real-world problem that could be solved using " \o topic
             \o ". Create a detailed plan including: problem statement, solution approach, required resources, and expected outcomes.",
         difficulty |-> "advanced",
         hint |-> "Think about problems in your community, workplace, or area of interest. Consider feasibility and impact." ] >>

\* The table of pre-authored guides, in the order Object.entries iterates it
\* (insertion order).  The two explanation literals are several hundred
\* lines of fixed markdown each; only their first heading is kept here.
enhancedTopics ==
    << [ key |-> "python",
         content |->
           [ title |-> "Python Programming: Complete Practical Guide",
             explanation |-> "# Python Programming Mastery Guide\n\n## What is Python?\n...",
             tasks |->
               << [ title |-> "Build a Personal Information Manager",
                    description |-> "Create a program that stores personal details (name, age, contacts, notes) and allows searching, updating, and displaying information.",
                    difficulty |-> "beginner",
                    hint |-> "Use dictionaries to store information and functions for different operations." ],
                  [ title |-> "Create a Weather Data Analyzer",
                    description |-> "Build a program that fetches weather data from an API, stores it, and provides statistics (average temperature, max/min, trends over time).",
                    difficulty |-> "intermediate",
                    hint |-> "Use requests library for API calls, pandas for data analysis, and matplotlib for visualization." ],
                  [ title |-> "Develop a Task Automation System",
                    description |-> "Create a system that automates repetitive tasks: file organization, email sending, data backup, and report generation with scheduling.",
                    difficulty |-> "advanced",
                    hint |-> "Use os and shutil for file operations, smtplib for emails, schedule library for automation, and logging for tracking." ] >> ] ],
       [ key |-> "database",
         content |->
           [ title |-> "Database Design and Management: Complete Guide",
             explanation |-> "# Database Fundamentals: Complete Guide\n\n## What is a Database?\n...",
             tasks |->
               << [ title |-> "Design a Library Management System",
                    description |-> "Create a complete database schema for a library including: Books, Members, Borrowing Records, Authors, and Publishers. Implement all necessary relationships and constraints.",
                    difficulty |-> "beginner",
                    hint |-> "Focus on proper table relationships (one-to-many, many-to-many) and implement basic CRUD operations." ],
                  [ title |-> "Build an E-commerce Analytics Dashboard",
                    description |-> "Design queries to analyze sales data: monthly revenue, top-selling products, customer purchase patterns, and inventory turnover rates.",
                    difficulty |-> "intermediate",
                    hint |-> "Use aggregation functions, window functions, and complex joins to extract business insights." ],
                  [ title |-> "Implement a Database Migration System",
                    description |-> "Create a system to handle database schema migrations, versioning, rollback capabilities, and automated deployment for a production environment.",
                    difficulty |-> "advanced",
                    hint |-> "Consider using tools like Flyway or Liquibase as inspiration, and implement safe migration practices." ] >> ] ] >>

\* a lookup that returns the key found leftmost in the topic
firstMatch_byPosition(lowerTopic, i) ==
    LET hits == {k \in i..Len(enhancedTopics) : includes(lowerTopic, enhancedTopics[k].key)}
        at(k, p) == SubSeq(lowerTopic, p, p + Len(enhancedTopics[k].key) - 1)
                        = enhancedTopics[k].key
        pos(k) == CHOOSE p \in 1..Len(lowerTopic) :
                      at(k, p) /\ \A r \in 1..(p - 1) : ~at(k, r)
    IN  IF hits = {} THEN 0
        ELSE CHOOSE k \in hits : \A j \in hits : pos(k) <= pos(j)

\* a lookup by equality with the key instead of containment
firstMatch_exact(lowerTopic, i) ==
    IF \E k \in i..Len(enhancedTopics) : enhancedTopics[k].key = lowerTopic
    THEN CHOOSE k \in i..Len(enhancedTopics) : enhancedTopics[k].key = lowerTopic
    ELSE 0

\* the for-of loop of generateEnhancedFallbackContent: the index of the first
\* table entry, from i on, whose key lowerTopic includes; 0 when there is none
RECURSIVE firstMatch(_, _)
firstMatch(lowerTopic, i) ==
    IF i > Len(enhancedTopics) THEN 0
    ELSE IF includes(lowerTopic, enhancedTopics[i].key) THEN i
    ELSE firstMatch(lowerTopic, i + 1)

\* a generator that tags the synthesized guide like a table entry
generateEnhancedFallbackContent_oneTag(topic) ==
    LET lowerTopic == toLowerCase(topic)
        hit == firstMatch(lowerTopic, 1)
    IN  [ success |-> TRUE,
          topic |-> topic,
          guide |-> IF hit # 0 THEN enhancedTopics[hit].content
                    ELSE [ title |-> "Comprehensive Guide to " \o Capitalize(topic),
                           explanation |-> generateDefaultExplanation(topic),
                           tasks |-> generateDefaultTasks(topic) ],
          source |-> "enhanced_local_detailed",
          message |-> "Detailed learning guide from enhanced local database" ]

generateEnhancedFallbackContent(topic) ==
    LET lowerTopic == toLowerCase(topic)
        hit == firstMatch(lowerTopic, 1)
    IN  IF hit # 0
        THEN [ success |-> TRUE,
               topic |-> topic,
               guide |-> enhancedTopics[hit].content,
               source |-> "enhanced_local_detailed",
               message |-> "Detailed learning guide from enhanced local database" ]
        ELSE [ success |-> TRUE,
               topic |-> topic,
               guide |-> [ title |-> "Comprehensive Guide to " \o Capitalize(topic),
                           explanation |-> generateDefaultExplanation(topic),
                           tasks |-> generateDefaultTasks(topic) ],
               source |-> "generated_detailed",
               message |-> "Generated detailed learning guide" ]

(***************************************************************************)
(* part_000: fallback record                                               *)
(***************************************************************************)
getFallbackResponse(topic) ==
    [ title |-> Capitalize(topic),
      explanation |-> "Let's explore \"" \o topic
          \o "\" together. This topic covers important concepts that are valuable to understand.\n\nStart with these steps:\n1. Research basic definitions from reliable sources\n2. Identify key principles and components\n3. Find real-world applications\n4. Practice with examples\n5. Teach someone else to reinforce learning",
      tasks |->
        << [ title |-> "Research and define",
             description |-> "Find 3 different definitions of \"" \o topic \o "\" from textbooks, websites, or videos",
             difficulty |-> "beginner",
             hint |-> "Wikipedia, Khan Academy, and educational YouTube channels are good starting points" ],
           [ title |-> "Identify key concepts",
             description |-> "List the 5 most important concepts or formulas related to \"" \o topic \o "\"",
             difficulty |-> "intermediate",
             hint |-> "Look for foundational principles that everything else builds upon" ],
           [ title |-> "Real-world application",
             description |-> "Find 2-3 practical examples of how \"" \o topic \o "\" is used in industry or daily life",
             difficulty |-> "intermediate",
             hint |-> "Search for case studies or news articles about applications" ],
           [ title |-> "Create learning resource",
             description |-> "Make a one-page cheat sheet explaining \"" \o topic \o "\" to a complete beginner",
             difficulty |-> "advanced",
             hint |-> "Use simple language, diagrams, and avoid jargon" ] >>,
      stream |-> "general",
      category |-> "concept",
      related_topics |-> << "Fundamentals", "Advanced Concepts", "Practical Applications" >>,
      source |-> "fallback",
      note |-> "AI service temporarily unavailable - using fallback content" ]

(***************************************************************************)
(* Rate limiting (server.js:808-828, part_000:153-175; the same code)      *)
(***************************************************************************)
\* Math.ceil(x / d) for d > 0
\* a division that rounds down
ceilDiv_floor(x, d) == x \div d

ceilDiv(x, d) == -((-x) \div d)

\* an eviction that never drops an entry
evict_never(history, t) == history

\* an eviction that drops at most one entry (if instead of while)
evict_once(history, t) ==
    IF Len(history) > 0 /\ history[1] < t - WINDOW_MS THEN Tail(history) ELSE history

\* while (requestHistory.length > 0 && requestHistory[0] < now - WINDOW_MS) shift()
RECURSIVE evict(_, _)
evict(history, t) ==
    IF Len(history) > 0 /\ history[1] < t - WINDOW_MS
    THEN evict(Tail(history), t)
    ELSE history

\* a limit test that admits one call too many
checkRateLimit_offByOne(history, t) ==
    LET kept == evict(history, t)
    IN  IF Len(kept) > RATE_LIMIT
        THEN [ ok |-> FALSE, history |-> kept,
               waitTime |-> ceilDiv(kept[1] + WINDOW_MS - t, MS_PER_SEC) ]
        ELSE [ ok |-> TRUE, history |-> Append(kept, t), waitTime |-> 0 ]

\* a limiter that records the rejected calls too
checkRateLimit_recordAll(history, t) ==
    LET kept == evict(history, t)
    IN  IF Len(kept) >= RATE_LIMIT
        THEN [ ok |-> FALSE, history |-> Append(kept, t),
               waitTime |-> ceilDiv(kept[1] + WINDOW_MS - t, MS_PER_SEC) ]
        ELSE [ ok |-> TRUE, history |-> Append(kept, t), waitTime |-> 0 ]

\* a limiter that puts the new entry at the front of the array
checkRateLimit_unshift(history, t) ==
    LET kept == evict(history, t)
    IN  IF Len(kept) >= RATE_LIMIT
        THEN [ ok |-> FALSE, history |-> kept,
               waitTime |-> ceilDiv(kept[1] + WINDOW_MS - t, MS_PER_SEC) ]
        ELSE [ ok |-> TRUE, history |-> << t >> \o kept, waitTime |-> 0 ]

\* a limiter that admits without recording the admission (the push left for
\* after the await)
checkRateLimit_deferred(history, t) ==
    LET kept == evict(history, t)
    IN  IF Len(kept) >= RATE_LIMIT
        THEN [ ok |-> FALSE, history |-> kept,
               waitTime |-> ceilDiv(kept[1] + WINDOW_MS - t, MS_PER_SEC) ]
        ELSE [ ok |-> TRUE, history |-> kept, waitTime |-> 0 ]

\* One call of checkRateLimit at clock value t on the array history:
\* ok = FALSE is the throw, history is the array afterwards.
checkRateLimit(history, t) ==
    LET kept == evict(history, t)
    IN  IF Len(kept) >= RATE_LIMIT
        THEN [ ok |-> FALSE, history |-> kept,
               waitTime |-> ceilDiv(kept[1] + WINDOW_MS - t, MS_PER_SEC) ]
        ELSE [ ok |-> TRUE, history |-> Append(kept, t), waitTime |-> 0 ]

\* the message of the Error checkRateLimit throws
rateLimitMessage(v, waitTime) ==
    IF v = "server"
    THEN "Rate limit: " \o ToString(RATE_LIMIT) \o " requests/minute. Wait "
         \o ToString(waitTime) \o " seconds."
    ELSE "Rate limit exceeded. Please wait " \o ToString(waitTime)
         \o " seconds. Free tier: 60 requests/minute."

(***************************************************************************)
(* Requests                                                                *)
(***************************************************************************)
\* A query parameter as Express parses it: absent (undefined), a string, or
\* an array (a repeated parameter, ?topic=a&topic=b).  For an array, val is
\* what String(array) gives.
Absent == [kind |-> "absent", val |-> ""]
Str(s) == [kind |-> "string", val |-> s]
Arr == [kind |-> "array", val |-> "a,b"]

\* JavaScript !q
falsy(q) == q.kind = "absent" \/ (q.kind = "string" /\ q.val = "")

\* server.js: if (!topic || topic.trim().length < 2) return 400
validateLearn(q) ==
    IF falsy(q) THEN "reject"
    ELSE IF q.kind # "string" THEN "throw"    \* topic.trim is not a function
    ELSE IF Len(trim(q.val)) < 2 THEN "reject"
    ELSE "pass"

\* part_000: if (!q || q.trim() === "") return 400
validateTopic(q) ==
    IF falsy(q) THEN "reject"
    ELSE IF q.kind # "string" THEN "throw"    \* q.trim is not a function
    ELSE IF trim(q.val) = "" THEN "reject"
    ELSE "pass"

\* part_001: if (!q) return 400
validateSearch(q) == IF falsy(q) THEN "reject" ELSE "pass"

validate(v, q) ==
    CASE v = "server" -> validateLearn(q)
      [] v = "part_000" -> validateTopic(q)
      [] OTHER -> validateSearch(q)

Slots == 1..NumSlots
\* at: the clock value checkRateLimit pushed for the request (0 before that)
IdleReq == [pc |-> "idle", q |-> Absent, topic |-> "", aiCalls |-> 0, row |-> 0, done |-> 0, at |-> 0]
NoResponse == << >>

NoInput == [variant |-> "none", q |-> "", trimmed |-> FALSE]

\* What initializeDatabase leaves in an empty database: the three sample
\* topics (part_001:62-144), explanations shortened to their first sentence
\* and the mathematical symbols of the texts written in ASCII.
sampleTopics ==
    << [ id |-> 1, title |-> "Python Functions", slug |-> "python-functions",
         stream |-> "cse", category |-> "programming",
         explanation |-> "Functions in Python are reusable blocks of code that perform specific tasks." ],
       [ id |-> 2, title |-> "Ohm's Law", slug |-> "ohms-law",
         stream |-> "ece", category |-> "electronics",
         explanation |-> "Ohm's Law states that the current through a conductor between two points is directly proportional to the voltage across the two points." ],
       [ id |-> 3, title |-> "Photosynthesis", slug |-> "photosynthesis",
         stream |-> "science", category |-> "biology",
         explanation |-> "Photosynthesis is the process by which plants, algae, and some bacteria convert light energy into chemical energy in the form of glucose (sugar)." ] >>

sampleTasks ==
    << [ topic_id |-> 1, title |-> "Define a simple function",
         description |-> "Create a function called 'greet' that takes a name as parameter and prints 'Hello, [name]!'",
         difficulty |-> "beginner", hint |-> "Use def greet(name): and print statement inside" ],
       [ topic_id |-> 1, title |-> "Function with return value",
         description |-> "Write a function 'square' that takes a number and returns its square",
         difficulty |-> "beginner", hint |-> "return num * num" ],
       [ topic_id |-> 1, title |-> "Multiple parameters",
         description |-> "Create a function 'calculate_area' that takes length and width, returns area of rectangle",
         difficulty |-> "intermediate", hint |-> "Area = length x width" ],
       [ topic_id |-> 2, title |-> "Calculate voltage",
         description |-> "If current is 2A and resistance is 3 ohm, find voltage using Ohm's Law",
         difficulty |-> "beginner", hint |-> "V = I x R" ],
       [ topic_id |-> 2, title |-> "Find resistance",
         description |-> "A circuit has 12V voltage and 0.5A current. What is the resistance?",
         difficulty |-> "beginner", hint |-> "R = V / I" ],
       [ topic_id |-> 2, title |-> "Real circuit problem",
         description |-> "A light bulb has resistance of 240 ohm. If it's connected to 120V supply, what current flows through it?",
         difficulty |-> "intermediate", hint |-> "First find I, then check if it's reasonable" ],
       [ topic_id |-> 3, title |-> "Identify inputs and outputs",
         description |-> "What are the inputs (reactants) and outputs (products) of photosynthesis?",
         difficulty |-> "beginner", hint |-> "Look at the equation" ],
       [ topic_id |-> 3, title |-> "Role of chlorophyll",
         description |-> "Explain why leaves are green and what happens to chlorophyll in autumn",
         difficulty |-> "intermediate", hint |-> "Chlorophyll absorbs certain colors of light" ],
       [ topic_id |-> 3, title |-> "Real-world application",
         description |-> "How does understanding photosynthesis help in agriculture?",
         difficulty |-> "advanced", hint |-> "Think about plant growth factors" ] >>

\* The state after start-up of variant v with or without an AI credential.
InitProgram(v, ai) ==
    /\ variant = v
    /\ aiAvailable = ai
    /\ now = 0
    /\ requestHistory = << >>
    /\ req = [s \in Slots |-> IdleReq]
    /\ response = NoResponse
    /\ topics = IF v = "part_001" THEN sampleTopics ELSE << >>   \* only part_001 has a database
    /\ tasks = IF v = "part_001" THEN sampleTasks ELSE << >>
    /\ calls = << >>
    /\ fbInput = NoInput
    /\ fbFirst = << >>
    /\ fbLast = << >>

\* the clock advances, up to bound
TickTo(bound) ==
    /\ now < bound
    /\ now' = now + 1
    /\ response' = NoResponse
    /\ UNCHANGED << variant, aiAvailable, requestHistory, req, topics, tasks,
                    calls, fbInput, fbFirst, fbLast >>

Tick == TickTo(MaxTime)

(***************************************************************************)
(* The rate limiter alone: checkRateLimit called at non-decreasing clock   *)
(* values, every call and its outcome kept in calls.                     *)
(***************************************************************************)
RateCall ==
    /\ Len(calls) < MaxCalls
    /\ LET r == checkRateLimit(requestHistory, now)
       IN  /\ requestHistory' = r.history
           /\ calls' = Append(calls, [t |-> now, ok |-> r.ok, waitTime |-> r.waitTime])
    /\ response' = NoResponse
    /\ UNCHANGED << variant, aiAvailable, now, req, topics, tasks,
                    fbInput, fbFirst, fbLast >>

InitRate == \E v \in {"server", "part_000"} : InitProgram(v, FALSE)

(***************************************************************************)
(* The fallback generators as functions of their input: one input is drawn *)
(* at the start and the generator is applied to it again and again while   *)
(* the clock and the rate window change.                                   *)
(***************************************************************************)
Alphabet == {"a", "B", " "}

RECURSIVE StringsUpTo(_)
StringsUpTo(n) ==
    IF n = 0 THEN {""}
    ELSE LET shorter == StringsUpTo(n - 1)
         IN  shorter \cup {s \o c : s \in shorter, c \in Alphabet}

RawQueries ==
    StringsUpTo(MaxGenLen) \cup
    { "c", "go", "python", "Python", "PYTHON basics", "database",
      "Learning DATABASE systems", "python database", "database python",
      "DataBase with PyThon", "pythondatabase", "pytho", "data base",
      "  python  ", " rust\n", "\tx", "machine learning", "web development",
      "machine learning database" }

fallbackOf(v, topic) ==
    IF v = "server" THEN generateEnhancedFallbackContent(topic)
    ELSE getFallbackResponse(topic)

\* the guide inside a fallback result
guideOf(v, result) == IF v = "server" THEN result.guide ELSE result

\* the string the generator is called with: the trimmed topic on the success
\* path, the raw query parameter in the catch handlers
fbTopic == IF fbInput.trimmed THEN trim(fbInput.q) ELSE fbInput.q

\* One call of the generator.  moved tells whether the clock or the rate
\* window differed from the initial ones when the call was made.
FallbackCall ==
    /\ fbInput # NoInput
    /\ LET call == [ result |-> fallbackOf(fbInput.variant, fbTopic),
                     moved |-> (now # 0 \/ requestHistory # << >>) ]
       IN  /\ fbFirst' = IF fbFirst = << >> THEN << call >> ELSE fbFirst
           /\ fbLast' = << call >>
    /\ response' = NoResponse
    /\ UNCHANGED << variant, aiAvailable, now, requestHistory, req, topics, tasks,
                    calls, fbInput >>

\* checkRateLimit called by some request in between
FallbackEnvRate ==
    /\ requestHistory' = checkRateLimit(requestHistory, now).history
    /\ response' = NoResponse
    /\ UNCHANGED << variant, aiAvailable, now, req, topics, tasks,
                    calls, fbInput, fbFirst, fbLast >>

InitFallback ==
    \E v \in {"server", "part_000"}, s \in RawQueries, t \in BOOLEAN :
        /\ validate(v, Str(s)) = "pass"
        /\ variant = v
        /\ aiAvailable = FALSE
        /\ now = 0
        /\ requestHistory = << >>
        /\ req = [x \in Slots |-> IdleReq]
        /\ response = NoResponse
        /\ topics = sampleTopics
        /\ tasks = sampleTasks
        /\ calls = << >>
        /\ fbInput = [variant |-> v, q |-> s, trimmed |-> t]
        /\ fbFirst = << >>
        /\ fbLast = << >>
FallbackTick == TickTo(MaxFbTime)
NextFallback == FallbackTick \/ FallbackEnvRate \/ FallbackCall
SpecFallback == InitFallback /\ [][NextFallback]_vars

(***************************************************************************)
(* What the external model can answer, and JSON.parse on it                *)
(***************************************************************************)
FullDocText ==
    "{\"title\":\"Go Basics\",\"explanation\":\"Go is compiled.\",\"tasks\":[{\"title\":\"Hello Go\",\"description\":\"Print a greeting\",\"difficulty\":\"beginner\",\"hint\":\"Use fmt\"}]}"

FullDoc ==
    [ title |-> "Go Basics",
      explanation |-> "Go is compiled.",
      tasks |-> << [ title |-> "Hello Go",
                     description |-> "Print a greeting",
                     difficulty |-> "beginner",
                     hint |-> "Use fmt" ] >> ]

PartialDocText == "{\"title\":\"Go Basics\"}"

PartialDoc == [ title |-> "Go Basics" ]

\* The JSON documents the model's answers are built from, with the value
\* JSON.parse gives for each.  JSON.parse accepts white space around a
\* document and throws a SyntaxError on any other text.
JsonDocs ==
    << [ text |-> FullDocText, isNull |-> FALSE, value |-> FullDoc ],
       [ text |-> PartialDocText, isNull |-> FALSE, value |-> PartialDoc ],
       [ text |-> "{}", isNull |-> FALSE, value |-> << >> ],
       [ text |-> "null", isNull |-> TRUE, value |-> << >> ] >>

JSONparse(s) ==
    LET t == trim(s)
        hits == {i \in DOMAIN JsonDocs : JsonDocs[i].text = t}
    IN  IF hits = {}
        THEN [ ok |-> FALSE, isNull |-> FALSE, value |-> << >> ]
        ELSE LET d == JsonDocs[CHOOSE i \in hits : TRUE]
             IN  [ ok |-> TRUE, isNull |-> d.isNull, value |-> d.value ]

\* The markdown fence, three backquotes.  (A string literal of this module
\* cannot hold a lone backquote, so the character is taken out of a pair.)
Backquote == SubSeq("`'", 1, 1)
Fence == Backquote \o Backquote \o Backquote

\* the answers of generateContent: it rejects, or it resolves with a text
AiThrow(message) == [kind |-> "throw", text |-> message]
AiText(text) == [kind |-> "text", text |-> text]
NoAi == [kind |-> "none", text |-> ""]

AiOutcomes ==
    { AiThrow("fetch failed"),
      AiThrow("[429 Too Many Requests] You exceeded your current quota"),
      AiText(FullDocText),
      AiText(Fence \o "json\n" \o PartialDocText \o "\n" \o Fence),
      AiText(Fence \o "\n" \o PartialDocText \o "\n" \o Fence),
      AiText("Sure:\n" \o PartialDocText),
      AiText(PartialDocText),
      AiText("null"),
      AiText("{\"title\":\"Go Ba"),
      AiText("I can't help with that.") }

\* p occurs in s at position i, counted from 1
occursAt(s, p, i) == SubSeq(s, i, i + Len(p) - 1) = p

\* s.indexOf(p), counted from 1; 0 when p does not occur
indexOf(s, p) ==
    LET last == Len(s) - Len(p) + 1
    IN  IF \E i \in 1..last : occursAt(s, p, i)
        THEN CHOOSE i \in 1..last :
                 occursAt(s, p, i) /\ \A j \in 1..(i - 1) : ~occursAt(s, p, j)
        ELSE 0

\* s.lastIndexOf(p), counted from 1; 0 when p does not occur.  The search
\* runs over the distance k from the last position where p fits.
lastIndexOf(s, p) ==
    LET last == Len(s) - Len(p) + 1
    IN  IF \E k \in 0..(last - 1) : occursAt(s, p, last - k)
        THEN last - (CHOOSE k \in 0..(last - 1) :
                        occursAt(s, p, last - k)
                        /\ \A j \in 0..(k - 1) : ~occursAt(s, p, last - j))
        ELSE 0

startsWith(s, p) == Len(s) >= Len(p) /\ SubSeq(s, 1, Len(p)) = p

\* the number of white-space characters of s from position i on
RECURSIVE spaceAfter(_, _)
spaceAfter(s, i) ==
    IF i <= Len(s) /\ SubSeq(s, i, i) \in WhiteSpace THEN 1 + spaceAfter(s, i + 1) ELSE 0

\* the number of white-space characters of s up to position i
RECURSIVE spaceBefore(_, _)
spaceBefore(s, i) ==
    IF i >= 1 /\ SubSeq(s, i, i) \in WhiteSpace THEN 1 + spaceBefore(s, i - 1) ELSE 0

\* server.js: jsonText.match(/\{[\s\S]*\}/), greedy: from the first "{" to
\* the last "}" after it; the whole text when there is no match
extractJson(text) ==
    LET open == indexOf(text, "{")
        close == lastIndexOf(text, "}")
    IN  IF open = 0 \/ close < open THEN text
        ELSE SubSeq(text, open, close)

\* s.replace(/<marker>\s*/, ""): the first marker and the white space after it
removeOpening(s, marker) ==
    LET k == indexOf(s, marker)
        end == k + Len(marker) + spaceAfter(s, k + Len(marker)) - 1
    IN  IF k = 0 THEN s
        ELSE SubSeq(s, 1, k - 1) \o SubSeq(s, end + 1, Len(s))

\* s.replace(/\s*<fence>/, ""): the first fence (three backquotes) and the
\* white space before it
removeClosing(s) ==
    LET k == indexOf(s, Fence)
        start == k - spaceBefore(s, k - 1)
    IN  IF k = 0 THEN s
        ELSE SubSeq(s, 1, start - 1) \o SubSeq(s, k + 3, Len(s))

\* part_000: remove markdown code blocks if present
stripFence(text) ==
    LET jsonText == trim(text)
    IN  IF startsWith(jsonText, Fence \o "json")
        THEN removeClosing(removeOpening(jsonText, Fence \o "json"))
        ELSE IF startsWith(jsonText, Fence)
        THEN removeClosing(removeOpening(jsonText, Fence))
        ELSE jsonText

\* data.field || default for a string field: a missing or empty one is falsy
orDefault(data, field, default) ==
    IF field \in DOMAIN data /\ data[field] # "" THEN data[field] ELSE default

\* data.tasks || default: any array, the empty one too, is truthy
tasksOrDefault(data, default) ==
    IF "tasks" \in DOMAIN data THEN data.tasks ELSE default

(***************************************************************************)
(* server.js: generateLearningWithAI, from the answer of generateContent   *)
(* on.  Every throw inside (the rejected call, JSON.parse, a property read *)
(* on null) lands in the inner catch, which returns fallback content.      *)
(***************************************************************************)
\* The result of the async function: threw = FALSE, it never rejects.
generateLearningWithAI(topic, outcome) ==
    LET parsed == JSONparse(extractJson(trim(outcome.text)))
    IN  IF outcome.kind = "throw" \/ ~parsed.ok \/ parsed.isNull
        THEN [ threw |-> FALSE, message |-> "",
               value |-> generateEnhancedFallbackContent(topic) ]
        ELSE [ threw |-> FALSE, message |-> "",
               value |->
                 [ success |-> TRUE,
                   topic |-> topic,
                   guide |->
                     [ title |-> orDefault(parsed.value, "title", "Learning Guide: " \o topic),
                       explanation |-> orDefault(parsed.value, "explanation",
                                                 generateDefaultExplanation(topic)),
                       tasks |-> tasksOrDefault(parsed.value, generateDefaultTasks(topic)) ],
                   source |-> "ai_generated",
                   message |-> "AI-generated learning guide ready!" ] ]

(***************************************************************************)
(* part_000: generateTopicWithAI, from the answer of generateContent on,   *)
(* at clock value t.  Its catch returns the fallback record.               *)
(***************************************************************************)
generateTopicWithAI_rethrow(topic, outcome, t) ==
    LET parsed == JSONparse(stripFence(outcome.text))
    IN  IF outcome.kind = "throw"
        THEN [ threw |-> TRUE, message |-> outcome.text, value |-> << >> ]
        ELSE IF ~parsed.ok \/ parsed.isNull
        THEN [ threw |-> TRUE, message |-> "Unexpected token in JSON", value |-> << >> ]
        ELSE [ threw |-> FALSE, message |-> "",
               value |-> [ source |-> "gemini_ai", generated_at |-> t,
                           ai_model |-> "gemini-pro" ] @@ parsed.value ]

\* The result of the async function: threw = FALSE, it never rejects.
generateTopicWithAI(topic, outcome, t) ==
    LET parsed == JSONparse(stripFence(outcome.text))
    IN  IF outcome.kind = "throw" \/ ~parsed.ok \/ parsed.isNull
        THEN [ threw |-> FALSE, message |-> "", value |-> getFallbackResponse(topic) ]
        ELSE [ threw |-> FALSE, message |-> "",
               value |-> [ source |-> "gemini_ai", generated_at |-> t,
                           ai_model |-> "gemini-pro" ] @@ parsed.value ]

(***************************************************************************)
(* How a handler ends: it sends a response, or (rejected) it throws out of *)
(* its own catch block, so the promise of the async handler rejects.       *)
(***************************************************************************)
Sent(status, body) == [sent |-> TRUE, rejected |-> FALSE, status |-> status, body |-> body]
Rejects == [sent |-> FALSE, rejected |-> TRUE, status |-> 0, body |-> << >>]

\* A rejected handler promise: Express 4 ignores it and no response is ever
\* sent; Express 5 passes it to the default error handler, which answers
\* 500 with an HTML page.  The repository does not say which it runs on.
settle(ending, express5) ==
    IF ending.rejected /\ express5
    THEN [ sent |-> TRUE, rejected |-> TRUE, status |-> 500,
           body |-> [html |-> "Internal Server Error"] ]
    ELSE ending

\* a JSON field that is an object in one response and a string in another
jsonObject(value) == [json |-> "object", value |-> value]
jsonString(value) == [json |-> "string", value |-> value]

\* req.query.x || "general topic"
orGeneralTopic(q) == IF falsy(q) THEN Str("general topic") ELSE q

\* a rate_limit field that leaves the newest entry out of the count
rateLimitInfo_beforePush(v, history) ==
    IF v = "server"
    THEN [ current |-> Len(history) - 1, limit |-> RATE_LIMIT,
           remaining |-> RATE_LIMIT - Len(history) + 1, reset_in |-> "1 minute" ]
    ELSE [ remaining |-> RATE_LIMIT - Len(history) + 1, reset_in |-> "1 minute",
           note |-> "Google Gemini Free Tier: 60 requests per minute" ]

\* the rate_limit field of a 200 response
rateLimitInfo(v, history) ==
    IF v = "server"
    THEN [ current |-> Len(history), limit |-> RATE_LIMIT,
           remaining |-> RATE_LIMIT - Len(history), reset_in |-> "1 minute" ]
    ELSE [ remaining |-> RATE_LIMIT - Len(history), reset_in |-> "1 minute",
           note |-> "Google Gemini Free Tier: 60 requests per minute" ]

(***************************************************************************)
(* server.js: GET /api/learn                                               *)
(***************************************************************************)
\* the catch block of the handler, for an error with this message
learnCatch(q, message) ==
    LET arg == orGeneralTopic(q)
    IN  IF arg.kind # "string"
        THEN Rejects        \* generateEnhancedFallbackContent: topic.toLowerCase is not a function
        ELSE IF includes(message, "Rate limit")
        THEN Sent(429, [ error |-> "Rate limit exceeded",
                         message |-> message,
                         limit |-> RATE_LIMIT,
                         fallback |-> jsonObject(generateEnhancedFallbackContent(arg.val).guide) ])
        ELSE Sent(500, [ error |-> "Server error",
                         fallback |-> jsonObject(generateEnhancedFallbackContent(arg.val).guide),
                         message |-> "Using enhanced fallback content" ])

\* result.rate_limit = ..., result.server = ..., res.json(result)
learnRespond(result, history, t) ==
    Sent(200, [ rate_limit |-> rateLimitInfo("server", history),
                server |-> [ ai_enabled |-> aiAvailable, source |-> result.source,
                             timestamp |-> t ] ] @@ result)

\* The request of slot s ends: the connection is free again and response
\* holds what was sent for it (sent = FALSE: nothing, and nothing ever will be).
finish(s, q, ending, admitted, aiCalls, ai) ==
    \E express5 \in (IF ending.rejected THEN BOOLEAN ELSE {FALSE}) :
        LET final == settle(ending, express5)
        IN  /\ req' = [req EXCEPT ![s] = IdleReq]
            /\ response' = [ q |-> q, sent |-> final.sent, status |-> final.status,
                             body |-> final.body, byFramework |-> final.rejected,
                             admitted |-> admitted, aiCalls |-> aiCalls, ai |-> ai ]

\* a new request takes the first free connection
accepts(s) ==
    /\ req[s].pc = "idle"
    /\ \A t \in Slots : req[t].pc = "idle" => s <= t

\* The handler from the arrival of the request to its first await (the AI
\* call) or, when there is none, to its end.
Learn(s, q) ==
    /\ variant = "server"
    /\ accepts(s)
    /\ LET valid == validateLearn(q)
             rate == checkRateLimit(requestHistory, now)
         IN  IF valid = "reject"
             THEN /\ finish(s, q, Sent(400, [ error |-> "Please enter a topic to learn",
                                              example |-> "Try: \"python programming\", \"database design\", \"machine learning\"" ]),
                            FALSE, 0, NoAi)
                  /\ UNCHANGED requestHistory
             ELSE IF valid = "throw"
             THEN /\ finish(s, q, learnCatch(q, "topic.trim is not a function"),
                            FALSE, 0, NoAi)
                  /\ UNCHANGED requestHistory
             ELSE /\ requestHistory' = rate.history
                  /\ IF ~rate.ok
                     THEN finish(s, q, learnCatch(q, rateLimitMessage("server", rate.waitTime)),
                                 FALSE, 0, NoAi)
                     ELSE IF aiAvailable
                     THEN /\ req' = [req EXCEPT ![s] = [ pc |-> "awaitAI", q |-> q,
                                                         topic |-> trim(q.val),
                                                         aiCalls |-> 1, row |-> 0, done |-> 0, at |-> now ]]
                          /\ response' = NoResponse
                     ELSE finish(s, q,
                                 learnRespond(generateEnhancedFallbackContent(trim(q.val)),
                                              rate.history, now),
                                 TRUE, 0, NoAi)
    /\ UNCHANGED << variant, aiAvailable, now, topics, tasks, calls, fbInput, fbFirst, fbLast >>

\* generateContent settles and the handler runs to its end.
LearnAIReturn(s, outcome) ==
    /\ variant = "server"
    /\ req[s].pc = "awaitAI"
    /\ LET ai == generateLearningWithAI(req[s].topic, outcome)
           \* catch (aiError) { result = generateEnhancedFallbackContent(cleanTopic) }
           result == IF ai.threw THEN generateEnhancedFallbackContent(req[s].topic)
                     ELSE ai.value
       IN  finish(s, req[s].q, learnRespond(result, requestHistory, now),
                  TRUE, req[s].aiCalls, outcome)
    /\ UNCHANGED << variant, aiAvailable, now, requestHistory, topics, tasks,
                    calls, fbInput, fbFirst, fbLast >>

(***************************************************************************)
(* part_000: GET /api/topic                                                *)
(***************************************************************************)
\* the outer catch block of the handler, for an error with this message
topicCatch(q, message) ==
    IF includes(message, "API key not valid")
    THEN Sent(401, [ error |-> "Invalid Gemini API Key",
                     solution |-> "1. Get key from https://makersuite.google.com/app/apikey\n2. Add to .env: GEMINI_API_KEY=your_key_here\n3. Restart server" ])
    ELSE IF includes(message, "quota")
    THEN Sent(429, [ error |-> "API quota exceeded",
                     solution |-> "Free tier: 60 requests per minute. Wait a minute or upgrade your plan." ])
    ELSE IF orGeneralTopic(q).kind # "string"
    THEN Rejects            \* getFallbackResponse: topic.charAt is not a function
    ELSE Sent(500, [ error |-> "Failed to generate learning materials",
                     fallback |-> jsonObject(getFallbackResponse(orGeneralTopic(q).val)) ])

\* aiResponse.rate_limit = ..., res.json(aiResponse)
topicRespond(aiResponse, history) ==
    Sent(200, [rate_limit |-> rateLimitInfo("part_000", history)] @@ aiResponse)

\* a handler that starts the AI call before it asks the rate limiter
Topic_aiBeforeLimit(s, q) ==
    /\ variant = "part_000"
    /\ accepts(s)
    /\ validateTopic(q) = "pass"
    /\ aiAvailable
    /\ req' = [req EXCEPT ![s] = [ pc |-> "awaitAI", q |-> q, topic |-> trim(q.val),
                                    aiCalls |-> 1, row |-> 0, done |-> 0, at |-> now ]]
    /\ response' = NoResponse
    /\ UNCHANGED << variant, aiAvailable, now, requestHistory, topics, tasks, calls,
                    fbInput, fbFirst, fbLast >>

Topic(s, q) ==
    /\ variant = "part_000"
    /\ accepts(s)
    /\ LET valid == validateTopic(q)
             rate == checkRateLimit(requestHistory, now)
         IN  IF valid = "reject"
             THEN /\ finish(s, q, Sent(400, [ error |-> "Please provide a topic to learn. Example: /api/topic?q=python+functions",
                                              example_topics |-> << "machine learning basics",
                                                  "quantum physics introduction",
                                                  "how to invest in stocks",
                                                  "French revolution causes",
                                                  "Python data structures" >> ]),
                            FALSE, 0, NoAi)
                  /\ UNCHANGED requestHistory
             ELSE IF valid = "throw"
             THEN /\ finish(s, q, topicCatch(q, "q.trim is not a function"),
                            FALSE, 0, NoAi)
                  /\ UNCHANGED requestHistory
             ELSE /\ requestHistory' = rate.history
                  /\ IF ~rate.ok
                     THEN finish(s, q, Sent(429, [ error |-> rateLimitMessage("part_000", rate.waitTime),
                                                   limit |-> "60 requests per minute",
                                                   upgrade |-> "For higher limits, upgrade at https://makersuite.google.com" ]),
                                 FALSE, 0, NoAi)
                     ELSE IF ~aiAvailable
                     THEN finish(s, q, Sent(503, [ error |-> "AI service not configured",
                                                   setup_guide |-> "Add your Gemini API key to .env file: GEMINI_API_KEY=your_key_here",
                                                   get_key |-> "Get free API key: https://makersuite.google.com/app/apikey",
                                                   fallback |-> jsonString("Using fallback content instead") ]),
                                 TRUE, 0, NoAi)
                     ELSE /\ req' = [req EXCEPT ![s] = [ pc |-> "awaitAI", q |-> q,
                                                         topic |-> trim(q.val),
                                                         aiCalls |-> 1, row |-> 0, done |-> 0, at |-> now ]]
                          /\ response' = NoResponse
    /\ UNCHANGED << variant, aiAvailable, now, topics, tasks, calls, fbInput, fbFirst, fbLast >>

\* a handler that calls the model a second time after a rejected call
TopicAIReturn_retry(s, outcome) ==
    /\ variant = "part_000"
    /\ req[s].pc = "awaitAI"
    /\ IF outcome.kind = "throw" /\ req[s].aiCalls < 2
       THEN /\ req' = [req EXCEPT ![s].aiCalls = req[s].aiCalls + 1]
            /\ response' = NoResponse
       ELSE LET ai == generateTopicWithAI(req[s].topic, outcome, now)
            IN  finish(s, req[s].q, topicRespond(ai.value, requestHistory),
                       TRUE, req[s].aiCalls, outcome)
    /\ UNCHANGED << variant, aiAvailable, now, requestHistory, topics, tasks,
                    calls, fbInput, fbFirst, fbLast >>

TopicAIReturn(s, outcome) ==
    /\ variant = "part_000"
    /\ req[s].pc = "awaitAI"
    /\ LET ai == generateTopicWithAI(req[s].topic, outcome, now)
           ending == IF ai.threw THEN topicCatch(req[s].q, ai.message)
                     ELSE topicRespond(ai.value, requestHistory)
       IN  finish(s, req[s].q, ending, TRUE, req[s].aiCalls, outcome)
    /\ UNCHANGED << variant, aiAvailable, now, requestHistory, topics, tasks,
                    calls, fbInput, fbFirst, fbLast >>

(***************************************************************************)
(* part_001: GET /api/topic                                                *)
(***************************************************************************)
\* text ILIKE %q%, for a q without the wildcards % and _
ilike(text, q) == includes(toLowerCase(text), toLowerCase(q))

\* the response for a topic the table does not hold
searchGenerated(q) ==
    [ title |-> Capitalize(q),
      explanation |-> "I'll help you learn about \"" \o q
          \o "\". This topic covers important concepts that are useful to understand. Start by researching basic definitions and gradually move to advanced applications.",
      tasks |->
        << [ title |-> "Research basic definition",
             description |-> "Find 3 different definitions of \"" \o q \o "\" from reliable sources",
             difficulty |-> "beginner",
             hint |-> "Check textbooks or educational websites" ],
           [ title |-> "Find real-world examples",
             description |-> "List 5 practical applications or examples of \"" \o q \o "\"",
             difficulty |-> "intermediate",
             hint |-> "Look for case studies or news articles" ],
           [ title |-> "Teach someone",
             description |-> "Explain \"" \o q \o "\" to a friend as if they're hearing about it for the first time",
             difficulty |-> "advanced",
             hint |-> "Use simple analogies and avoid jargon" ] >>,
      related_topics |-> << "Basic concepts", "Practical applications", "Advanced theories" >> ]

internalError == Sent(500, [error |-> "Internal server error"])

Search(s, q) ==
    /\ variant = "part_001"
    /\ accepts(s)
    /\ IF validateSearch(q) = "reject"
       THEN finish(s, q, Sent(400, [error |-> "Search query is required"]), FALSE, 0, NoAi)
       ELSE /\ req' = [req EXCEPT ![s] = [ pc |-> "awaitTopics", q |-> q, topic |-> q.val,
                                           aiCalls |-> 0, row |-> 0, done |-> 0, at |-> 0 ]]
            /\ response' = NoResponse
    /\ UNCHANGED << variant, aiAvailable, now, requestHistory, topics, tasks,
                    calls, fbInput, fbFirst, fbLast >>

\* The SELECT on topics settles: it fails, or it returns at most one of the
\* matching rows (LIMIT 1 without ORDER BY: any of them).
SearchTopicsReturn(s, failed) ==
    /\ variant = "part_001"
    /\ req[s].pc = "awaitTopics"
    /\ LET q == req[s].q
           matches == {i \in DOMAIN topics :
                          ilike(topics[i].title, q.val) \/ ilike(topics[i].slug, q.val)}
       IN  IF failed
           THEN finish(s, q, internalError, FALSE, 0, NoAi)
           ELSE IF matches = {}
           THEN IF q.kind # "string"
                THEN finish(s, q, internalError, FALSE, 0, NoAi)   \* q.charAt is not a function
                ELSE finish(s, q, Sent(200, searchGenerated(q.val)), FALSE, 0, NoAi)
           ELSE \E i \in matches :
                    /\ req' = [req EXCEPT ![s].pc = "awaitTasks", ![s].row = i]
                    /\ response' = NoResponse
    /\ UNCHANGED << variant, aiAvailable, now, requestHistory, topics, tasks,
                    calls, fbInput, fbFirst, fbLast >>

\* the rows SELECT title, description, difficulty, hint gives for a topic
RECURSIVE tasksOf(_, _)
tasksOf(rows, id) ==
    IF rows = << >> THEN << >>
    ELSE IF Head(rows).topic_id = id
    THEN << [ title |-> Head(rows).title, description |-> Head(rows).description,
              difficulty |-> Head(rows).difficulty, hint |-> Head(rows).hint ] >>
         \o tasksOf(Tail(rows), id)
    ELSE tasksOf(Tail(rows), id)

SearchTasksReturn(s, failed) ==
    /\ variant = "part_001"
    /\ req[s].pc = "awaitTasks"
    /\ LET topic == topics[req[s].row]
       IN  IF failed
           THEN finish(s, req[s].q, internalError, FALSE, 0, NoAi)
           ELSE finish(s, req[s].q,
                       Sent(200, [ title |-> topic.title,
                                   explanation |-> topic.explanation,
                                   tasks |-> tasksOf(tasks, topic.id),
                                   stream |-> topic.stream,
                                   category |-> topic.category,
                                   related_topics |-> << "Related concept 1", "Related concept 2",
                                                         "Related concept 3" >> ]),
                       FALSE, 0, NoAi)
    /\ UNCHANGED << variant, aiAvailable, now, requestHistory, topics, tasks,
                    calls, fbInput, fbFirst, fbLast >>

(***************************************************************************)
(* part_001: POST /api/topic                                               *)
(***************************************************************************)
\* a JSON number in a request body
Num == [kind |-> "number", val |-> "5"]

\* the body of a POST request as express.json() parses it
Body(b) == [kind |-> "body", val |-> b]

Digits == "0123456789"
SlugChars ==
    {SubSeq(LowerLetters, i, i) : i \in 1..26} \cup {SubSeq(Digits, i, i) : i \in 1..10}

\* s.replace(/[^a-z0-9]+/g, "-"): every run of other characters becomes one
\* "-".  inRun: the character before s was part of such a run.
RECURSIVE dashRuns(_, _)
dashRuns(s, inRun) ==
    IF s = "" THEN ""
    ELSE IF charAt(s, 0) \in SlugChars
    THEN charAt(s, 0) \o dashRuns(slice(s, 1), FALSE)
    ELSE (IF inRun THEN "" ELSE "-") \o dashRuns(slice(s, 1), TRUE)

\* title.toLowerCase().replace(/[^a-z0-9]+/g, "-")
slugOf(title) == dashRuns(toLowerCase(title), FALSE)

\* id SERIAL: an id no stored row has.  (The model takes the successor of the
\* largest one; PostgreSQL also spends a sequence value on a failed INSERT,
\* which changes the number and nothing that depends on it.)
RECURSIVE maxId(_)
maxId(rows) ==
    IF rows = << >> THEN 0
    ELSE LET m == maxId(Tail(rows))
         IN  IF Head(rows).id > m THEN Head(rows).id ELSE m

nextId(rows) == maxId(rows) + 1

\* INSERT INTO topics without the UNIQUE constraint on slug
insertTopic_noUnique(rows, title, slug, explanation, stream, category) ==
    [ ok |-> TRUE, id |-> nextId(rows),
      rows |-> Append(rows, [ id |-> nextId(rows), title |-> title, slug |-> slug,
                              stream |-> stream, category |-> category,
                              explanation |-> explanation ]) ]

\* INSERT INTO topics ... RETURNING id under the constraints of the table
\* (part_001:27-35): slug UNIQUE.  ok = FALSE: the statement fails and the
\* table is as before.
insertTopic(rows, title, slug, explanation, stream, category) ==
    IF \E i \in DOMAIN rows : rows[i].slug = slug
    THEN [ ok |-> FALSE, id |-> 0, rows |-> rows ]
    ELSE [ ok |-> TRUE, id |-> nextId(rows),
           rows |-> Append(rows, [ id |-> nextId(rows), title |-> title, slug |-> slug,
                                   stream |-> stream, category |-> category,
                                   explanation |-> explanation ]) ]

\* INSERT INTO tasks under the constraints of the table (part_001:37-45):
\* title and description NOT NULL, difficulty among the three levels.  An
\* undefined parameter is sent as NULL.
insertTask(rows, topicId, task) ==
    IF \/ task.title.kind = "absent"
       \/ task.description.kind = "absent"
       \/ task.difficulty.val \notin Difficulties
    THEN [ ok |-> FALSE, rows |-> rows ]
    ELSE [ ok |-> TRUE,
           rows |-> Append(rows, [ topic_id |-> topicId, title |-> task.title.val,
                                   description |-> task.description.val,
                                   difficulty |-> task.difficulty.val,
                                   hint |-> task.hint.val ]) ]

\* if (tasks && Array.isArray(tasks)): the tasks the loop goes through
tasksToInsert(b) == IF b.tasksGiven THEN b.tasks ELSE << >>

added(topicId) ==
    Sent(200, [ success |-> TRUE, message |-> "Topic added successfully",
                topicId |-> topicId ])

\* The handler from the arrival of the request to its first await, the
\* INSERT of the topic.
Post(s, b) ==
    /\ variant = "part_001"
    /\ accepts(s)
    /\ IF falsy(b.title) \/ falsy(b.explanation)
       THEN finish(s, Body(b), Sent(400, [error |-> "Title and explanation are required"]),
                   FALSE, 0, NoAi)
       ELSE IF b.title.kind # "string"
       THEN finish(s, Body(b), internalError, FALSE, 0, NoAi)   \* title.toLowerCase is not a function
       ELSE /\ req' = [req EXCEPT ![s] = [ pc |-> "awaitInsertTopic", q |-> Body(b),
                                           topic |-> slugOf(b.title.val),
                                           aiCalls |-> 0, row |-> 0, done |-> 0, at |-> 0 ]]
            /\ response' = NoResponse
    /\ UNCHANGED << variant, aiAvailable, now, requestHistory, topics, tasks,
                    calls, fbInput, fbFirst, fbLast >>

\* The INSERT of the topic settles: the database fails, the statement fails
\* on a constraint, or the row is stored (and stays stored: every pool.query
\* is a transaction of its own).  The database of the model has room for
\* MaxTopics topics: on a full one only the failure happens.
PostTopicReturn(s, failed) ==
    /\ variant = "part_001"
    /\ req[s].pc = "awaitInsertTopic"
    /\ failed \/ Len(topics) < MaxTopics
    /\ LET b == req[s].q.val
           ins == insertTopic(topics, b.title.val, req[s].topic, b.explanation.val,
                              b.stream, b.category)
       IN  IF failed \/ ~ins.ok
           THEN /\ finish(s, req[s].q, internalError, FALSE, 0, NoAi)
                /\ UNCHANGED topics
           ELSE /\ topics' = ins.rows
                /\ IF tasksToInsert(b) = << >>
                   THEN finish(s, req[s].q, added(ins.id), FALSE, 0, NoAi)
                   ELSE /\ req' = [req EXCEPT ![s].pc = "awaitInsertTask", ![s].row = ins.id]
                        /\ response' = NoResponse
    /\ UNCHANGED << variant, aiAvailable, now, requestHistory, tasks,
                    calls, fbInput, fbFirst, fbLast >>

\* The INSERT of the next task settles.
PostTaskReturn(s, failed) ==
    /\ variant = "part_001"
    /\ req[s].pc = "awaitInsertTask"
    /\ LET b == req[s].q.val
           ins == insertTask(tasks, req[s].row, b.tasks[req[s].done + 1])
       IN  IF failed \/ ~ins.ok
           THEN /\ finish(s, req[s].q, internalError, FALSE, 0, NoAi)
                /\ UNCHANGED tasks
           ELSE /\ tasks' = ins.rows
                /\ IF req[s].done + 1 = Len(b.tasks)
                   THEN finish(s, req[s].q, added(req[s].row), FALSE, 0, NoAi)
                   ELSE /\ req' = [req EXCEPT ![s].done = req[s].done + 1]
                        /\ response' = NoResponse
    /\ UNCHANGED << variant, aiAvailable, now, requestHistory, topics,
                    calls, fbInput, fbFirst, fbLast >>

(***************************************************************************)
(* The servers under requests                                              *)
(***************************************************************************)
Queries ==
    { Absent, Str(" "), Str("c"), Str("python"), Str("  Go lang "), Arr }

Init ==
    \E v \in Variants, ai \in BOOLEAN :
        /\ (v = "part_001" => ~ai)
        /\ InitProgram(v, ai)

HttpTick == TickTo(MaxHttpTime)

Next ==
    \/ HttpTick
    \/ \E s \in Slots, q \in Queries : Learn(s, q)
    \/ \E s \in Slots, o \in AiOutcomes : LearnAIReturn(s, o)
    \/ \E s \in Slots, q \in Queries : Topic(s, q)
    \/ \E s \in Slots, o \in AiOutcomes : TopicAIReturn(s, o)
    \/ \E s \in Slots, q \in Queries : Search(s, q)
    \/ \E s \in Slots, failed \in BOOLEAN : SearchTopicsReturn(s, failed)
    \/ \E s \in Slots, failed \in BOOLEAN : SearchTasksReturn(s, failed)

Spec == Init /\ [][Next]_vars

(***************************************************************************)
(* GET /api/health, and the rate limiter under calls and health requests   *)
(***************************************************************************)
\* the body of the health response (uptime, which no other part of the
\* program reads, is left out)
healthBody(v) ==
    IF v = "server"
    THEN [ status |-> "running",
           mode |-> IF aiAvailable THEN "ai_enhanced" ELSE "enhanced_local",
           requests_this_minute |-> Len(requestHistory),
           rate_limit |-> RATE_LIMIT,
           enhanced_topics |-> << "python", "database", "machine learning" >> ]
    ELSE [ status |-> "healthy",
           ai_configured |-> aiAvailable,
           timestamp |-> now,
           rate_limit |-> [ current |-> Len(requestHistory), limit |-> RATE_LIMIT,
                            remaining |-> RATE_LIMIT - Len(requestHistory) ] ]

\* The handler is synchronous: the request arrives and is answered in one
\* step, and it reads requestHistory without calling checkRateLimit.
Health ==
    /\ variant \in {"server", "part_000"}
    /\ response' = [ q |-> Absent, sent |-> TRUE, status |-> 200,
                     body |-> healthBody(variant), byFramework |-> FALSE,
                     admitted |-> FALSE, aiCalls |-> 0, ai |-> NoAi ]
    /\ UNCHANGED << variant, aiAvailable, now, requestHistory, req, topics, tasks,
                    calls, fbInput, fbFirst, fbLast >>

NextRate == Tick \/ RateCall \/ Health
SpecRate == InitRate /\ [][NextRate]_vars

(***************************************************************************)
(* The two rate-limited handlers with AI calls that may last longer than   *)
(* the window: the code sets no timeout on generateContent.                *)
(***************************************************************************)
LongQueries == { Str("python") }
LongOutcomes == { AiThrow("fetch failed"), AiText(FullDocText) }

InitLong == \E v \in {"server", "part_000"}, ai \in BOOLEAN : InitProgram(v, ai)

NextLong ==
    \/ Tick
    \/ \E s \in Slots, q \in LongQueries : Learn(s, q)
    \/ \E s \in Slots, o \in LongOutcomes : LearnAIReturn(s, o)
    \/ \E s \in Slots, q \in LongQueries : Topic(s, q)
    \/ \E s \in Slots, o \in LongOutcomes : TopicAIReturn(s, o)

SpecLong == InitLong /\ [][NextLong]_vars

(***************************************************************************)
(* The persisted variant under POST and GET requests                       *)
(***************************************************************************)
goTask ==
    [ title |-> Str("Hello Go"), description |-> Str("Print a greeting"),
      difficulty |-> Str("beginner"), hint |-> Str("Use fmt") ]

\* a task with a difficulty the table does not allow
hardTask ==
    [ title |-> Str("Write a scheduler"), description |-> Str("Schedule goroutines"),
      difficulty |-> Str("hard"), hint |-> Str("Start small") ]

postBody(title, explanation, tasksGiven, taskList) ==
    [ title |-> title, explanation |-> explanation, tasksGiven |-> tasksGiven,
      tasks |-> taskList, stream |-> "cse", category |-> "programming" ]

PostBodies ==
    { postBody(Str("Go Lang"), Str("Go is compiled."), TRUE, << hardTask >>),
      postBody(Str("GO  lang"), Str("Go again."), FALSE, << >>),
      postBody(Str("Go Lang"), Absent, TRUE, << goTask >>),
      postBody(Num, Str("Five."), FALSE, << >>),
      postBody(Str("Python Functions"), Str("Functions again."), FALSE, << >>),
      postBody(Str("Go Tasks"), Str("Five tasks."), TRUE,
               << goTask, goTask, goTask, goTask, goTask >>) }

\* "go" matches no seeded topic and every topic the bodies above add (Spec
\* sends the queries that match the seeded ones)
StoreQueries == { Str("go") }

InitStore == InitProgram("part_001", FALSE)

NextStore ==
    \/ \E s \in Slots, b \in PostBodies : Post(s, b)
    \/ \E s \in Slots, failed \in BOOLEAN : PostTopicReturn(s, failed)
    \/ \E s \in Slots, failed \in BOOLEAN : PostTaskReturn(s, failed)
    \/ \E s \in Slots, q \in StoreQueries : Search(s, q)
    \/ \E s \in Slots, failed \in BOOLEAN : SearchTopicsReturn(s, failed)
    \/ \E s \in Slots, failed \in BOOLEAN : SearchTasksReturn(s, failed)

SpecStore == InitStore /\ [][NextStore]_vars

(***************************************************************************)
(* Properties of the rate limiter (SpecRate)                               *)
(***************************************************************************)
\* the admitted calls with a timestamp in lo..hi
AdmittedIn(lo, hi) ==
    {i \in DOMAIN calls : calls[i].ok /\ lo <= calls[i].t /\ calls[i].t <= hi}

\* C4: sliding-window bound.  After any sequence of checkRateLimit calls at
\* non-decreasing clock values, for every time t at most RATE_LIMIT admitted
\* calls have a timestamp in the window t - WINDOW_MS .. t, and
\* requestHistory never holds more than RATE_LIMIT entries.
C4_SlidingWindowBound ==
    /\ Len(requestHistory) <= RATE_LIMIT
    /\ \A t \in 0..MaxTime :
           Cardinality(AdmittedIn(t - WINDOW_MS, t)) <= RATE_LIMIT

\* the window has slid: a call was rejected at the limit, and more than
\* RATE_LIMIT calls have been admitted in all
C4_Witness ==
    /\ \E i \in DOMAIN calls : ~calls[i].ok
    /\ Cardinality(AdmittedIn(0, MaxTime)) > RATE_LIMIT

\* C5: from an empty history, RATE_LIMIT calls made within WINDOW_MS of the
\* first are all admitted, call RATE_LIMIT + 1 made within that window is
\* rejected, and a call made more than WINDOW_MS after every admitted call
\* before it is admitted again.
C5_AdmitRejectReadmit ==
    /\ \A i \in DOMAIN calls :
           (i <= RATE_LIMIT /\ calls[i].t <= calls[1].t + WINDOW_MS) => calls[i].ok
    /\ (Len(calls) > RATE_LIMIT /\ calls[RATE_LIMIT + 1].t <= calls[1].t + WINDOW_MS)
           => ~calls[RATE_LIMIT + 1].ok
    /\ \A i \in DOMAIN calls :
           (\A j \in 1..(i - 1) : calls[j].ok => calls[j].t + WINDOW_MS < calls[i].t)
               => calls[i].ok

\* the whole scenario has run: RATE_LIMIT admitted, the next rejected inside
\* the window, a later call admitted after the window
C5_Witness ==
    /\ Len(calls) >= RATE_LIMIT + 2
    /\ \A i \in 1..RATE_LIMIT : calls[i].ok
    /\ ~calls[RATE_LIMIT + 1].ok
    /\ calls[RATE_LIMIT + 1].t <= calls[1].t + WINDOW_MS
    /\ \E i \in (RATE_LIMIT + 2)..Len(calls) :
           calls[i].ok /\ calls[i].t > calls[RATE_LIMIT].t + WINDOW_MS

(***************************************************************************)
(* Properties of the fallback generators (SpecFallback)                    *)
(***************************************************************************)
WellFormedTask(task) ==
    /\ task.title # ""
    /\ task.description # ""
    /\ task.hint # ""
    /\ task.difficulty \in Difficulties

WellFormedGuide(guide) ==
    /\ guide.title # ""
    /\ guide.explanation # ""
    /\ Len(guide.tasks) \in 3..4
    /\ \A i \in DOMAIN guide.tasks : WellFormedTask(guide.tasks[i])

\* C8: for every string topic that passes validation the fallback generator
\* returns a guide with a non-empty title, a non-empty explanation and 3 or
\* 4 tasks, each with non-empty title, description and hint and a
\* difficulty among beginner, intermediate, advanced.
C8_FallbackWellFormed ==
    fbLast # << >> => WellFormedGuide(guideOf(fbInput.variant, fbLast[1].result))

\* the generator has run on a one-character topic (part_000 admits it)
C8_Witness ==
    /\ fbLast # << >>
    /\ Len(fbTopic) = 1

ContainedKeys(topic) ==
    {i \in DOMAIN enhancedTopics : includes(toLowerCase(topic), enhancedTopics[i].key)}

\* the guide generateEnhancedFallbackContent synthesizes for an unknown topic
IsSynthesized(result, topic) ==
    /\ result.source = "generated_detailed"
    /\ result.guide.title = "Comprehensive Guide to " \o Capitalize(topic)
    /\ result.guide.tasks = generateDefaultTasks(topic)

\* C10 as stated: a topic whose lower-cased form contains a table key
\* returns that key's pre-authored guide, and a topic containing no key
\* returns the synthesized guide.
C10_EveryContainedKeyWins ==
    (fbLast # << >> /\ fbInput.variant = "server") =>
        /\ \A i \in ContainedKeys(fbTopic) :
               fbLast[1].result.guide = enhancedTopics[i].content
        /\ ContainedKeys(fbTopic) = {} => IsSynthesized(fbLast[1].result, fbTopic)

\* C10 amended: a topic whose lower-cased form contains a table key returns
\* the pre-authored guide of a key it contains (the first in table order
\* when it contains several) and never the synthesized guide; a topic
\* containing no key returns the synthesized guide.
C10_ContainedKeyWins ==
    (fbLast # << >> /\ fbInput.variant = "server") =>
        LET hits == ContainedKeys(fbTopic)
        IN  /\ hits # {} =>
                /\ fbLast[1].result.guide =
                       enhancedTopics[CHOOSE i \in hits : \A j \in hits : i <= j].content
                /\ fbLast[1].result.source = "enhanced_local_detailed"
                /\ ~IsSynthesized(fbLast[1].result, fbTopic)
            /\ hits = {} => IsSynthesized(fbLast[1].result, fbTopic)

\* the lookup has matched a key inside a longer topic written in capitals
C10_Witness ==
    /\ fbLast # << >>
    /\ fbInput.variant = "server"
    /\ fbTopic = "Learning DATABASE systems"
    /\ fbLast[1].result.guide = enhancedTopics[2].content

(***************************************************************************)
(* Properties of the request handlers (Spec)                               *)
(***************************************************************************)
\* the AI attempt of a request failed: generateContent threw, or the text
\* it returned is not JSON after the clean-up of the variant
AiFailed(v, outcome) ==
    \/ outcome.kind = "throw"
    \/ /\ outcome.kind = "text"
       /\ ~JSONparse(IF v = "server" THEN extractJson(trim(outcome.text))
                     ELSE stripFence(outcome.text)).ok

\* a 200 body that carries the fallback content for the topic of query q
IsFallbackBody(v, body, q) ==
    IF v = "server"
    THEN /\ body.source \in {"enhanced_local_detailed", "generated_detailed"}
         /\ body.topic = trim(q.val)
         /\ WellFormedGuide(body.guide)
    ELSE /\ body.source = "fallback"
         /\ body.title = Capitalize(trim(q.val))
         /\ WellFormedGuide(body)

\* C1: when the AI is configured and the AI attempt fails (the call throws,
\* or the returned text is not parseable JSON), GET /api/learn (server.js)
\* and GET /api/topic (part_000) still answer 200 with a fallback guide.
C1_AIFailureStill200 ==
    (response # NoResponse /\ variant \in {"server", "part_000"}
        /\ AiFailed(variant, response.ai))
    => /\ response.sent
       /\ response.status = 200
       /\ IsFallbackBody(variant, response.body, response.q)

\* part_000 has answered a request whose AI text was not JSON
C1_Witness ==
    /\ response # NoResponse
    /\ variant = "part_000"
    /\ response.ai.kind = "text"
    /\ AiFailed(variant, response.ai)
    /\ response.status = 200

\* the body has a field fallback holding a usable guide
HasFallbackGuide(body) ==
    /\ "fallback" \in DOMAIN body
    /\ body.fallback.json = "object"
    /\ WellFormedGuide(body.fallback.value)

\* the body tells the client how long to wait
HasRetryAfter(body) ==
    \/ "message" \in DOMAIN body /\ includes(body.message, " seconds")
    \/ "error" \in DOMAIN body /\ includes(body.error, " seconds")

\* C2: every 429 and every 500 response a handler of the learning endpoint
\* writes carries a usable fallback guide (title, explanation, tasks), and
\* every 429 also carries a retry-after estimate.
C2_ErrorResponsesCarryFallback ==
    (response # NoResponse /\ response.sent /\ ~response.byFramework
        /\ response.status \in {429, 500})
    => /\ HasFallbackGuide(response.body)
       /\ response.status = 429 => HasRetryAfter(response.body)

\* the title of a 200 body, "" when it has none
titleOf(v, body) ==
    IF v = "server"
    THEN IF "guide" \in DOMAIN body THEN body.guide.title ELSE ""
    ELSE IF "title" \in DOMAIN body THEN body.title ELSE ""

\* C3: a request with a valid topic that the rate limiter admits is answered
\* 200 with a populated guide/title, with and without an AI credential.
C3_Admitted200 ==
    (response # NoResponse /\ response.admitted)
    => /\ response.sent
       /\ response.status = 200
       /\ titleOf(variant, response.body) # ""

\* the query parameter is missing, or blank after trimming
IsBlank(q) == q.kind = "absent" \/ (q.kind = "string" /\ trim(q.val) = "")

\* C6: the learning endpoint answers 400 exactly when the topic parameter
\* is missing or blank after trimming.
C6_400IffBlank ==
    response # NoResponse
    => ((response.sent /\ response.status = 400) <=> IsBlank(response.q))

\* C7: no handler path ends without a response: whatever the query
\* parameter is and however the AI call settles, a request that ends has
\* been answered.
C7_EveryRequestAnswered ==
    response # NoResponse => response.sent

\* a step in which the rate limiter admits a request: the request reaches
\* its AI await, or it is answered as admitted in the step it arrived in
AdmissionStep ==
    \/ \E s \in Slots : req[s].pc = "idle" /\ req'[s].pc = "awaitAI"
    \/ /\ req' = req
       /\ response' # NoResponse
       /\ response'.admitted

\* the entries of the history that lie inside the window at time t
InWindow(history, t) == {i \in DOMAIN history : history[i] >= t - WINDOW_MS}

\* C11: under any interleaving of requests (some suspended at the AI await
\* while others arrive and end) the check-evict-append of checkRateLimit is
\* one step: a request is admitted only when fewer than RATE_LIMIT entries
\* remain after eviction, its admission appends exactly its own timestamp
\* in the same step, no other step adds an entry, and the window never
\* holds more than RATE_LIMIT entries.
C11_AdmissionAtomic ==
    /\ [](Cardinality(InWindow(requestHistory, now)) <= RATE_LIMIT)
    /\ [][ IF AdmissionStep
           THEN /\ Len(evict(requestHistory, now)) < RATE_LIMIT
                /\ requestHistory' = Append(evict(requestHistory, now), now)
           ELSE requestHistory' \in {requestHistory, evict(requestHistory, now)} ]_vars

\* a request has been rejected at the limit while an admitted one is still
\* suspended at its AI await
C11_Witness ==
    /\ response # NoResponse
    /\ response.sent
    /\ response.status = 429
    /\ Len(requestHistory) = RATE_LIMIT
    /\ \E s \in Slots : req[s].pc = "awaitAI"

\* C12: a request makes at most one call to the external AI service.  A
\* request in flight has made one call exactly when it is suspended at the
\* AI await; a request that has ended made one call when the AI was tried
\* and none otherwise; and a request whose single attempt failed has ended
\* with the fallback content, not with a second attempt.
C12_AtMostOneAICall ==
    /\ \A s \in Slots :
           /\ req[s].aiCalls <= 1
           /\ req[s].aiCalls = 1 <=> req[s].pc = "awaitAI"
    /\ response # NoResponse =>
           /\ response.aiCalls = (IF response.ai = NoAi THEN 0 ELSE 1)
           /\ (variant \in {"server", "part_000"} /\ AiFailed(variant, response.ai))
                  => IsFallbackBody(variant, response.body, response.q)

\* server.js has answered a request whose one call to the model was rejected
C12_Witness ==
    /\ response # NoResponse
    /\ variant = "server"
    /\ response.ai.kind = "throw"
    /\ response.aiCalls = 1
    /\ response.status = 200

\* C13: when no AI credential is configured, a valid request that the rate
\* limiter admits is answered 503.
C13_NoCredential503 ==
    (response # NoResponse /\ variant \in {"server", "part_000"}
        /\ ~aiAvailable /\ response.admitted)
    => /\ response.sent
       /\ response.status = 503

(***************************************************************************)
(* Properties of the persisted variant (SpecStore)                         *)
(***************************************************************************)
\* the stored topics with this slug
WithSlug(rows, slug) == {i \in DOMAIN rows : rows[i].slug = slug}

\* the INSERT of the topic of the POST request in slot s settles in this step
TopicInsertSettles(s) ==
    req[s].pc = "awaitInsertTopic" /\ req'[s].pc # "awaitInsertTopic"

PostEndsWithError(s) ==
    /\ req[s].pc \in {"awaitInsertTopic", "awaitInsertTask"}
    /\ req'[s].pc = "idle"
    /\ response'.status \in {400, 500}

\* a POST request is answered with an error in the step it arrives in
PostRefused ==
    /\ req' = req
    /\ response' # NoResponse
    /\ response'.q.kind = "body"
    /\ response'.status \in {400, 500}

\* C15: POST /api/topic is all-or-nothing.  When a POST request is answered
\* 400 or 500, the store holds no topic and no task that this request
\* inserted.
C15_PostAllOrNothing ==
    [][ /\ PostRefused => (topics' = topics /\ tasks' = tasks)
        /\ \A s \in Slots :
               PostEndsWithError(s) =>
                   /\ \A i \in DOMAIN topics' : topics'[i].id # req[s].row
                   /\ \A i \in DOMAIN tasks' : tasks'[i].topic_id # req[s].row ]_vars

\* C16: in the persisted variant, after any sequence of POST and GET
\* requests, every 200 response of GET /api/topic has a non-empty title, a
\* non-empty explanation and between 1 and 4 tasks.
C16_GetHasGuideShape ==
    (response # NoResponse /\ response.q.kind # "body"
        /\ response.sent /\ response.status = 200)
    => /\ response.body.title # ""
       /\ response.body.explanation # ""
       /\ Len(response.body.tasks) \in 1..4

(***************************************************************************)
(* Properties of the AI path (Spec)                                        *)
(***************************************************************************)
\* what JSON.parse makes of the AI text after the clean-up of variant v
parsedAnswer(v, outcome) ==
    JSONparse(IF v = "server" THEN extractJson(trim(outcome.text))
              ELSE stripFence(outcome.text))

GuideFields == {"title", "explanation", "tasks"}

\* the AI answered with a JSON object that lacks a field of the guide
LacksGuideField(v, outcome) ==
    /\ outcome.kind = "text"
    /\ parsedAnswer(v, outcome).ok
    /\ ~parsedAnswer(v, outcome).isNull
    /\ GuideFields \ DOMAIN parsedAnswer(v, outcome).value # {}

\* the guide of a 200 body
guideIn(v, body) == IF v = "server" THEN body.guide ELSE body

\* C17: when the AI returns text that parses as a JSON object lacking any of
\* title, explanation or tasks, the response is a 200 whose guide has all
\* three fields populated.
C17_MissingFieldsBackfilled ==
    (response # NoResponse /\ variant \in {"server", "part_000"}
        /\ LacksGuideField(variant, response.ai))
    => /\ response.sent
       /\ response.status = 200
       /\ GuideFields \subseteq DOMAIN guideIn(variant, response.body)
       /\ guideIn(variant, response.body).title # ""
       /\ guideIn(variant, response.body).explanation # ""
       /\ guideIn(variant, response.body).tasks # << >>

\* the JSON objects of the model inside a fenced block with the tag json,
\* inside one without a tag, and after a line of prose
FencedDocs ==
    {Fence \o "json\n" \o d \o "\n" \o Fence : d \in {FullDocText, PartialDocText}}
    \cup {Fence \o "\n" \o d \o "\n" \o Fence : d \in {FullDocText, PartialDocText}}

ProseThenDocs == {"Sure:\n" \o d : d \in {FullDocText, PartialDocText}}

\* the source field of content that came from the AI
AiSource(v) == IF v = "server" THEN "ai_generated" ELSE "gemini_ai"

\* C18: when the raw AI text is a valid JSON object inside a fenced block
\* (with or without a language tag), or a valid JSON object after leading
\* prose, the request is answered 200 with the content of that object,
\* marked as AI-sourced, and not with fallback content.
C18_CleanupYieldsAIContent ==
    (response # NoResponse /\ variant \in {"server", "part_000"}
        /\ response.ai.kind = "text"
        /\ response.ai.text \in FencedDocs \cup ProseThenDocs)
    => /\ response.sent
       /\ response.status = 200
       /\ response.body.source = AiSource(variant)
       /\ guideIn(variant, response.body).title = "Go Basics"

(***************************************************************************)
(* Properties of one call of the rate limiter (SpecRate)                   *)
(***************************************************************************)
\* an entry that is not older than the window at the current clock value
NotExpired(x) == x >= now - WINDOW_MS

\* checkRateLimit is called in this step
Called == calls' # calls

\* the record of the call made in this step
thisCall == calls'[Len(calls')]

IsCeiling(n, x, d) == n * d >= x /\ (n - 1) * d < x

\* C20: on every rejection the reported wait is the ceiling of
\* (oldest + WINDOW_MS - now) / MS_PER_SEC, oldest being the first entry
\* left after eviction, and it lies between 0 and the window length in
\* seconds (WINDOW_MS / MS_PER_SEC rounded up; 60 in the program).
C20_WaitIsCeilingInRange ==
    [][ (Called /\ ~thisCall.ok) =>
          LET kept == SelectSeq(requestHistory, NotExpired)
          IN  /\ IsCeiling(thisCall.waitTime, kept[1] + WINDOW_MS - now, MS_PER_SEC)
              /\ thisCall.waitTime >= 0
              /\ (thisCall.waitTime - 1) * MS_PER_SEC < WINDOW_MS ]_vars

\* calls have been rejected with the shortest wait (the oldest entry was
\* exactly WINDOW_MS old) and with the longest one (the oldest entry was
\* made at the clock value of the call)
C20_Witness ==
    /\ \E i \in DOMAIN calls : ~calls[i].ok /\ calls[i].waitTime = 0
    /\ \E i \in DOMAIN calls :
           ~calls[i].ok /\ calls[i].waitTime * MS_PER_SEC >= WINDOW_MS

(***************************************************************************)
(* Properties of the history array (SpecRate)                              *)
(***************************************************************************)
\* C21: in every reachable state, the states a health request observes
\* included, every entry of requestHistory is a timestamp within the last
\* WINDOW_MS of the current time.
C21_EntriesWithinWindow ==
    \A i \in DOMAIN requestHistory :
        /\ requestHistory[i] <= now
        /\ requestHistory[i] >= now - WINDOW_MS

C23_FirstKeyInTableOrder ==
    (fbLast # << >> /\ fbInput.variant = "server") =>
        LET lowerTopic == toLowerCase(fbTopic)
            guide == fbLast[1].result.guide
        IN  /\ \A i \in ContainedKeys(fbTopic) :
                   (\E j \in ContainedKeys(fbTopic) : j # i)
                       => \E k \in 1..i : guide = enhancedTopics[k].content
            /\ \A i \in ContainedKeys(fbTopic) :
                   guide = enhancedTopics[i].content
                       => \A k \in 1..(i - 1) : k \notin ContainedKeys(fbTopic)
            /\ (includes(lowerTopic, "python") /\ includes(lowerTopic, "database"))
                   => guide.title = "Python Programming: Complete Practical Guide"

\* the lookup has run on a topic that names "database" before "python"
C23_Witness ==
    /\ fbLast # << >>
    /\ fbInput.variant = "server"
    /\ fbTopic = "database python"
    /\ ContainedKeys(fbTopic) = {1, 2}
    /\ fbLast[1].result.guide = enhancedTopics[1].content

\* the guide is one of the pre-authored entries of the table
IsTableEntry(guide) == \E i \in DOMAIN enhancedTopics : guide = enhancedTopics[i].content

\* the guide is the one built from the templates for this topic
IsTemplateGuide(guide, topic) ==
    guide = [ title |-> "Comprehensive Guide to " \o Capitalize(topic),
              explanation |-> generateDefaultExplanation(topic),
              tasks |-> generateDefaultTasks(topic) ]

\* C24: the source tag of a fallback result is "enhanced_local_detailed"
\* exactly when its guide is an entry of the table and "generated_detailed"
\* exactly when its guide was synthesized, and no fallback result carries
\* the tag "ai_generated".
C24_SourceTagTellsKind ==
    fbLast # << >> =>
        LET result == fbLast[1].result
        IN  /\ result.source # "ai_generated"
            /\ fbInput.variant = "server" =>
                   /\ result.source = "enhanced_local_detailed" <=> IsTableEntry(result.guide)
                   /\ result.source = "generated_detailed"
                          <=> IsTemplateGuide(result.guide, fbTopic)
                   /\ IsTableEntry(result.guide) <=> ~IsTemplateGuide(result.guide, fbTopic)

\* the generator has synthesized a guide and tagged it as generated
C24_Witness ==
    /\ fbLast # << >>
    /\ fbInput.variant = "server"
    /\ fbTopic = "web development"
    /\ fbLast[1].result.source = "generated_detailed"
    /\ ~IsTableEntry(fbLast[1].result.guide)

\* what the claim says of the tasks of a synthesized guide
ThreeGradedTasks(list, topic) ==
    /\ Len(list) = 3
    /\ << list[1].difficulty, list[2].difficulty, list[3].difficulty >>
           = << "beginner", "intermediate", "advanced" >>
    /\ \A i \in 1..3 : /\ includes(list[i].title, topic)
                        /\ includes(list[i].description, topic)

\* C25 as stated: for a topic that matches no table key the synthesized
\* guide has exactly 3 tasks with the difficulties beginner, intermediate,
\* advanced in that order and the topic in each, and its title is the topic
\* with its first character upper-cased and the rest unchanged.
C25_TitleIsCapitalizedTopic ==
    (fbLast # << >> /\ fbInput.variant = "server" /\ ContainedKeys(fbTopic) = {}) =>
        LET guide == fbLast[1].result.guide
        IN  /\ ThreeGradedTasks(guide.tasks, fbTopic)
            /\ guide.title = toUpperCase(SubSeq(fbTopic, 1, 1))
                                 \o SubSeq(fbTopic, 2, Len(fbTopic))

\* C25 amended: the same tasks, and the title is "Comprehensive Guide to "
\* followed by the topic with its first character upper-cased and the rest
\* unchanged.
C25_TitleEndsWithCapitalizedTopic ==
    (fbLast # << >> /\ fbInput.variant = "server" /\ ContainedKeys(fbTopic) = {}) =>
        LET guide == fbLast[1].result.guide
        IN  /\ ThreeGradedTasks(guide.tasks, fbTopic)
            /\ guide.title = "Comprehensive Guide to "
                                 \o toUpperCase(SubSeq(fbTopic, 1, 1))
                                 \o SubSeq(fbTopic, 2, Len(fbTopic))

\* a guide has been synthesized for a lower-case topic with a capital inside
C25_Witness ==
    /\ fbLast # << >>
    /\ fbInput.variant = "server"
    /\ fbTopic = "aB"
    /\ fbLast[1].result.guide.title = "Comprehensive Guide to AB"
    /\ Len(fbLast[1].result.guide.tasks) = 3

\* the request of slot s starts its AI call in this step
StartsAICall(s) == req[s].pc # "awaitAI" /\ req'[s].pc = "awaitAI"

\* C26: a request starts its AI call only in the step in which it has
\* passed validation and been admitted by the rate limiter; a request
\* answered 400 or 429 has made no AI call; and a request suspended at its
\* AI call is answered only in the step in which that call has returned
\* or failed.
C26_ValidateAdmitCallRespond ==
    /\ []( (response # NoResponse /\ response.sent /\ response.status \in {400, 429})
              => (response.aiCalls = 0 /\ response.ai = NoAi) )
    /\ [][ \A s \in Slots :
              /\ StartsAICall(s) =>
                     /\ validate(variant, req'[s].q) = "pass"
                     /\ Len(evict(requestHistory, now)) < RATE_LIMIT
                     /\ requestHistory' = Append(evict(requestHistory, now), now)
                     /\ response' = NoResponse
              /\ req[s].pc = "awaitAI" =>
                     \/ req'[s] = req[s]
                     \/ /\ req'[s].pc = "idle"
                        /\ response' # NoResponse
                        /\ response'.q = req[s].q
                        /\ response'.ai \in AiOutcomes
                        /\ response'.admitted ]_vars

\* part_000 has answered 200 to a request after its AI call returned, the
\* entry of its admission still in the history
C26_Witness ==
    /\ variant = "part_000"
    /\ response # NoResponse
    /\ response.sent
    /\ response.status = 200
    /\ response.admitted
    /\ response.aiCalls = 1
    /\ response.ai # NoAi
    /\ requestHistory # << >>

\* C27: when a call at time t is rejected with a reported wait of w
\* seconds, a call made at t + w seconds, with no call admitted in between,
\* is admitted.
C27_AdmittedAfterReportedWait ==
    \A i, j \in DOMAIN calls :
        ( /\ i < j
          /\ ~calls[i].ok
          /\ calls[j].t = calls[i].t + MS_PER_SEC * calls[i].waitTime
          /\ \A k \in (i + 1)..(j - 1) : ~calls[k].ok )
        => calls[j].ok

\* a step in which a request is answered with this status
AnsweredWith(status) ==
    /\ response' # NoResponse
    /\ response'.sent
    /\ response'.status = status

\* C28: the step that answers a request 400 leaves requestHistory as it
\* was; the step that answers a request 429 appends nothing to it (it
\* removes at most the expired entries); and after either the rate limiter
\* decides every later call as it would have decided it before.
C28_OnlyAdmittedRecorded ==
    [][ /\ AnsweredWith(400) => requestHistory' = requestHistory
        /\ AnsweredWith(429) =>
               /\ requestHistory' = evict(requestHistory, now)
               /\ ~response'.admitted
        /\ (AnsweredWith(400) \/ AnsweredWith(429)) =>
               \A t \in now..MaxTime :
                   checkRateLimit(requestHistory', t) = checkRateLimit(requestHistory, t) ]_vars

\* server.js has answered 429 to a request it did not admit, and the window
\* holds RATE_LIMIT entries, none of them for that request
C28_Witness ==
    /\ variant = "server"
    /\ response # NoResponse
    /\ response.sent
    /\ response.status = 429
    /\ ~response.admitted
    /\ response.aiCalls = 0
    /\ Len(requestHistory) = RATE_LIMIT

\* a step that answers 200 to a request of a rate-limited handler, and the
\* clock value the rate limiter recorded for that request
Answers200 ==
    /\ variant \in {"server", "part_000"}
    /\ AnsweredWith(200)
answeredAt ==
    IF \E s \in Slots : req[s].pc = "awaitAI" /\ req'[s].pc = "idle"
    THEN req[CHOOSE s \in Slots : req[s].pc = "awaitAI" /\ req'[s].pc = "idle"].at
    ELSE now

\* remaining = limit - current and 0 <= remaining <= limit - 1, for the
\* rate_limit object of a response sent when the array held current entries
ConsistentAndBounded(info, current) ==
    /\ info.remaining = RATE_LIMIT - current
    /\ info.remaining >= 0
    /\ info.remaining <= RATE_LIMIT - 1
    /\ variant = "server" =>
           /\ info.current = current
           /\ info.limit = RATE_LIMIT
           /\ info.remaining = info.limit - info.current

\* C29 as stated: in every 200 response, whatever other requests were
\* admitted while this one awaited its AI call, remaining = limit - current,
\* 0 <= remaining <= limit - 1, and the entry of this request is among the
\* entries that current counts.
C29_CurrentCountsThisRequest ==
    [][ Answers200 =>
           /\ ConsistentAndBounded(response'.body.rate_limit, Len(requestHistory'))
           /\ \E i \in DOMAIN requestHistory' : requestHistory'[i] = answeredAt ]_vars

\* C29 amended: in every 200 response remaining = limit - current and
\* 0 <= remaining <= limit - 1, so current >= 1; the entry of this request
\* is among the entries counted unless the clock has passed it by more
\* than the window while the request awaited its AI call.
C29_RateLimitInfoBounded ==
    [][ Answers200 =>
           /\ ConsistentAndBounded(response'.body.rate_limit, Len(requestHistory'))
           /\ Len(requestHistory') >= 1
           /\ answeredAt >= now - WINDOW_MS
                  => \E i \in DOMAIN requestHistory' : requestHistory'[i] = answeredAt ]_vars

\* a request has been answered 200 with no capacity remaining, after
\* another request was admitted while it awaited its AI call
C29_Witness ==
    /\ response # NoResponse
    /\ response.sent
    /\ response.status = 200
    /\ response.aiCalls = 1
    /\ response.body.rate_limit.remaining = 0
    /\ \E s \in Slots : req[s].pc = "awaitAI" /\ req[s].at > requestHistory[1]

====
